---- MODULE Spec2Model ----
(***************************************************************************)
(* Model of src/utils.py (maxstollmayer/Graph-Algorithms-Project):         *)
(* paging of a text under a character budget (split_text,                  *)
(* split_into_pages), window layout (get_windows), graph construction      *)
(* (generate_graph), node permutation (permute_graph), k-nearest-neighbour *)
(* sparsification (sparsify_graph) and BookDataset.process.                *)
(*                                                                         *)
(* A Python str is a sequence of one-character strings; a list is a        *)
(* sequence; a tuple is a sequence.  Python indices are 0-based, the       *)
(* sequences here 1-based: graph node i of the source is node i here and   *)
(* only sequence positions are shifted.                                    *)
(***************************************************************************)
EXTENDS Integers, Sequences, FiniteSets, TLC

VARIABLES
    pc,              \* position of the running function
    text,            \* split_into_pages: argument text
    num_pages,       \* split_into_pages: argument num_pages
    chars_per_page,  \* split_into_pages: local chars_per_page
    words,           \* split_into_pages: local words
    pages,           \* split_into_pages: local pages (the value returned)
    gw_num_pages,    \* get_windows: argument num_pages
    window_size,     \* get_windows: argument window_size
    gw,              \* get_windows: locals num_windows, overlap, missing, i
    windows,         \* get_windows: local windows (the value returned)
    g_pages,         \* generate_graph: argument pages
    g_weights,       \* generate_graph: the matrix get_weights returns for pages
    graph,           \* the graph generate_graph returned
    call,            \* the function applied to graph, with its arguments
    out,             \* outcome of that call: a value returned or an exception raised
    books,           \* process: contents of the files of PATHS, in order
    texts,           \* process: local texts
    nxgraphs,        \* process: local nxgraphs
    graphs,          \* process: local graphs
    labels,          \* process: local labels
    self_graphs,     \* BookDataset.graphs
    self_labels,     \* BookDataset.labels
    loop             \* process: positions of its loops

pagerVars == <<text, num_pages, chars_per_page, words, pages>>
windowerVars == <<gw_num_pages, window_size, gw, windows>>
graphVars == <<g_pages, g_weights, graph, call, out>>
processVars == <<books, texts, nxgraphs, graphs, labels, self_graphs, self_labels, loop>>
vars == <<pc, pagerVars, windowerVars, graphVars, processVars>>
notPager == <<windowerVars, graphVars, processVars>>
notWindower == <<pagerVars, graphVars, processVars>>
notGraph == <<pagerVars, windowerVars, processVars>>
notProcess == <<pagerVars, windowerVars, graphVars>>

(***************************************************************************)
(* Bounds of the model.                                                    *)
(***************************************************************************)
MaxTokens == 5       \* a text is built from at most this many tokens
MaxNumPages == 3     \* num_pages argument of split_into_pages ranges over 0..MaxNumPages
BigWordLen == 51     \* length of the long word a text may contain
MidWordLen == 3      \* length of the longer word of the texts of FairSpecPager
MaxWinPages == 14    \* num_pages argument of get_windows ranges over 0..MaxWinPages
MaxWindowSize == 6   \* window_size argument of get_windows ranges over 1..MaxWindowSize
MaxNodes == 3        \* generate_graph is given 1..MaxNodes pages
PagesPerGraph == 3   \* the value NUM_PAGES has in the model (100 in the source)
PermsPerGraph == 2   \* the value NUM_PERMS has in the model (10 in the source)
MaxBooks == 2        \* PATHS names 0..MaxBooks books (12 in the source)
MaxTruePages == 7    \* a book file holds 1..MaxTruePages pages
MaxPageWords == 2    \* each of 1..MaxPageWords words

(***************************************************************************)
(* Each specification below runs one function of the program; the          *)
(* variables of the others keep these values.                              *)
(***************************************************************************)
None == "None"

\* an attribute of the dataset object: not assigned yet, or assigned a value
Unassigned == [assigned |-> FALSE]
Assigned(v) == [assigned |-> TRUE, value |-> v]

PagerIdle ==
    /\ text = <<>>
    /\ num_pages = 0
    /\ chars_per_page = 0
    /\ words = <<>>
    /\ pages = <<>>

NoLocals == [num_windows |-> 0, overlap |-> 0, missing |-> 0, i |-> 0]

WindowerIdle ==
    /\ gw_num_pages = 0
    /\ window_size = 0
    /\ gw = NoLocals
    /\ windows = <<>>

GraphIdle ==
    /\ g_pages = <<>>
    /\ g_weights = <<>>
    /\ graph = None
    /\ call = None
    /\ out = None

NoLoop == [book |-> 0, graph |-> 0, trial |-> 0]

ProcessIdle ==
    /\ books = <<>>
    /\ texts = <<>>
    /\ nxgraphs = <<>>
    /\ graphs = <<>>
    /\ labels = <<>>
    /\ self_graphs = Unassigned
    /\ self_labels = Unassigned
    /\ loop = NoLoop

(***************************************************************************)
(* Strings.                                                                *)
(***************************************************************************)
\* c * n
Rep(c, n) == [i \in 1..n |-> c]

\* str.isspace for the characters that occur
IsSpace(c) == c \in {" ", "\n"}

\* the positions at which a maximal run of non-whitespace characters starts
WordStarts(s) ==
    {i \in 1..Len(s) : ~IsSpace(s[i]) /\ (i = 1 \/ IsSpace(s[i - 1]))}

\* the position at which the run starting at i ends
WordEnd(s, i) ==
    LET ends == {j \in i..Len(s) : j = Len(s) \/ IsSpace(s[j + 1])}
    IN  CHOOSE x \in ends : \A y \in ends : x <= y

RECURSIVE WordsFrom(_, _)
WordsFrom(s, starts) ==
    IF starts = {} THEN <<>>
    ELSE LET i == CHOOSE x \in starts : \A y \in starts : x <= y
         IN  <<SubSeq(s, i, WordEnd(s, i))>> \o WordsFrom(s, starts \ {i})

\* str.split(): the maximal runs of non-whitespace characters, left to right
StrSplit(s) == WordsFrom(s, WordStarts(s))

\* str.strip(): s without its leading and trailing whitespace
Strip(s) ==
    LET solid == {i \in 1..Len(s) : ~IsSpace(s[i])}
    IN  IF solid = {} THEN <<>>
        ELSE SubSeq(s, CHOOSE x \in solid : \A y \in solid : x <= y,
                       CHOOSE x \in solid : \A y \in solid : x >= y)

RECURSIVE JoinFrom(_, _, _)
JoinFrom(sep, parts, i) ==
    IF i > Len(parts) THEN <<>>
    ELSE IF i = Len(parts) THEN parts[i]
    ELSE parts[i] \o sep \o JoinFrom(sep, parts, i + 1)

\* sep.join(parts) for a list of strings
Join(sep, parts) == JoinFrom(sep, parts, 1)

\* c.join(s) for a single string s and a one-character separator c: the
\* characters of s are the parts
JoinChars(c, s) ==
    IF s = <<>> THEN <<>>
    ELSE [i \in 1..(2 * Len(s) - 1) |-> IF i % 2 = 1 THEN s[(i + 1) \div 2] ELSE c]

(***************************************************************************)
(* split_text                                                              *)
(***************************************************************************)
RECURSIVE SplitTextLoop(_, _, _, _, _)
SplitTextLoop(ws, i, cpp, pgs, current_page) ==
    IF i > Len(ws)
    THEN IF current_page # <<>> THEN Append(pgs, Strip(current_page)) ELSE pgs
    ELSE IF Len(current_page) + Len(ws[i]) + 1 <= cpp
         THEN SplitTextLoop(ws, i + 1, cpp, pgs, current_page \o ws[i] \o <<" ">>)
         ELSE SplitTextLoop(ws, i + 1, cpp, Append(pgs, Strip(current_page)),
                            ws[i] \o <<" ">>)

split_text(ws, cpp) == SplitTextLoop(ws, 1, cpp, <<>>, <<>>)

(***************************************************************************)
(* split_into_pages                                                        *)
(***************************************************************************)
\* pages[-overflow]: the single page at Python index len(pages) - overflow
PageAtOverflow(pgs, overflow) == pgs[Len(pgs) - overflow + 1]

\* the increment without its "+ 1"
BudgetIncrement_NoPlusOne(pgs, n) ==
    LET overflow == Len(pgs) - n
    IN  Len(JoinChars(" ", PageAtOverflow(pgs, overflow))) \div 100

BudgetIncrement(pgs, n) ==
    LET overflow == Len(pgs) - n
    IN  Len(JoinChars(" ", PageAtOverflow(pgs, overflow))) \div 100 + 1

AssertFails ==
    /\ pc = "call"
    /\ ~(num_pages > 0)
    /\ pc' = "raised"
    /\ UNCHANGED <<pagerVars, notPager>>

SplitIntoPagesCall ==
    /\ pc = "call"
    /\ num_pages > 0
    /\ \E cpp \in {Len(text) \div num_pages + 1}, ws \in {StrSplit(text)} :
           /\ chars_per_page' = cpp
           /\ words' = ws
           /\ pages' = split_text(ws, cpp)
    /\ pc' = "loop"
    /\ UNCHANGED <<text, num_pages, notPager>>

BudgetCorrection ==
    /\ pc = "loop"
    /\ Len(pages) > num_pages
    /\ \E cpp \in {chars_per_page + BudgetIncrement(pages, num_pages)} :
           /\ chars_per_page' = cpp
           /\ pages' = split_text(words, cpp)
    /\ UNCHANGED <<pc, text, num_pages, words, notPager>>

SplitIntoPagesReturn ==
    /\ pc = "loop"
    /\ ~(Len(pages) > num_pages)
    /\ pc' = "returned"
    /\ UNCHANGED <<pagerVars, notPager>>

(***************************************************************************)
(* Inputs of the pager: texts over the characters "a", " ", newline and a  *)
(* long word.                                                              *)
(***************************************************************************)
BigWord == Rep("b", BigWordLen)
Tokens == {<<"a">>, <<" ">>, <<"\n">>, BigWord}

RECURSIVE Flatten(_)
Flatten(ts) == IF ts = <<>> THEN <<>> ELSE Head(ts) \o Flatten(Tail(ts))

TextsOver(tokens) ==
    UNION {{Flatten(ts) : ts \in [1..n -> tokens]} : n \in 0..MaxTokens}

Texts == TextsOver(Tokens)

\* the same texts with a shorter long word
ShortTexts == TextsOver({<<"a">>, <<" ">>, <<"\n">>, Rep("b", MidWordLen)})

InitPagerOn(inputs) ==
    /\ pc = "call"
    /\ text \in inputs
    /\ num_pages \in 0..MaxNumPages
    /\ chars_per_page = 0
    /\ words = <<>>
    /\ pages = <<>>
    /\ WindowerIdle
    /\ GraphIdle
    /\ ProcessIdle

NextPager ==
    \/ AssertFails
    \/ SplitIntoPagesCall
    \/ BudgetCorrection
    \/ SplitIntoPagesReturn

InitPager == InitPagerOn(Texts)

SpecPager == InitPager /\ [][NextPager]_vars

\* A sequential program takes its next step: a call that can take a step is
\* not abandoned.  (Checked over ShortTexts.)
InitPagerShort == InitPagerOn(ShortTexts)

FairSpecPager == InitPagerShort /\ [][NextPager]_vars /\ WF_vars(NextPager)

(***************************************************************************)
(* Claims about split_text and split_into_pages.                           *)
(***************************************************************************)
RECURSIVE SumLen(_, _, _)
SumLen(pgs, from, to) ==
    IF from > to THEN 0 ELSE Len(pgs[from]) + SumLen(pgs, from + 1, to)

\* C1: for a non-empty text and num_pages > 0, the pages split_into_pages
\* returns, joined with single spaces, are exactly the whitespace-normalized
\* text ' '.join(text.split()), and no page is empty.
C1_RejoinIsNormalizedText ==
    (pc = "returned" /\ text # <<>>) =>
        /\ Join(<<" ">>, pages) = Join(<<" ">>, StrSplit(text))
        /\ \A p \in 1..Len(pages) : pages[p] # <<>>

\* C2: for every text and num_pages > 0, split_into_pages terminates and
\* returns at most num_pages pages.
C2_TerminatesWithinNumPages ==
    (num_pages > 0) => <>(pc = "returned" /\ Len(pages) <= num_pages)

\* C2: a call that returned after the budget was corrected at least once
C2_ReturnedAfterCorrection ==
    /\ pc = "returned"
    /\ chars_per_page > Len(text) \div num_pages + 1
    /\ Len(pages) <= num_pages

\* C8: each iteration of the correction loop raises chars_per_page by the
\* total length of the last `overflow` pages (all excess pages), integer-
\* divided by 100, plus 1.
C8_IncrementFromAllExcessPages ==
    [][(pc = "loop" /\ Len(pages) > num_pages) =>
          chars_per_page' = chars_per_page
              + SumLen(pages, num_pages + 1, Len(pages)) \div 100 + 1]_vars

(***************************************************************************)
(* get_windows                                                             *)
(*                                                                         *)
(* The source computes with floats: q = num_pages / window_size,           *)
(* offset = (num_windows * window_size - num_pages) / (num_windows - 1).   *)
(* For the non-negative integers in reach, int(q) is the integer quotient, *)
(* q == n holds exactly when the division leaves no remainder, int(offset) *)
(* is the integer quotient and round((offset - overlap) * (num_windows -   *)
(* 1)) is the remainder of that division.                                  *)
(***************************************************************************)
NumWindows(np, ws) ==
    LET n == np \div ws
    IN  IF np % ws = 0 THEN n ELSE n + 1

Overlap(np, ws) ==
    (NumWindows(np, ws) * ws - np) \div (NumWindows(np, ws) - 1)

Missing(np, ws) ==
    (NumWindows(np, ws) * ws - np) % (NumWindows(np, ws) - 1)

\* the window of loop index i, with no window shifted
WindowAt_NoShift(i, ws, l) ==
    LET start == i * (ws - l.overlap)
        end == (i + 1) * ws - i * l.overlap
    IN  <<start, end>>

\* the window of loop index i
WindowAt(i, ws, l) ==
    LET start == i * (ws - l.overlap)
        end == (i + 1) * ws - i * l.overlap
    IN  IF l.num_windows - i <= l.missing
        THEN <<start - l.missing, end - l.missing>>
        ELSE <<start, end>>

\* num_pages <= window_size
GetWindowsSingle ==
    /\ pc = "call"
    /\ gw_num_pages <= window_size
    /\ windows' = << <<0, gw_num_pages>> >>
    /\ pc' = "returned"
    /\ UNCHANGED <<gw_num_pages, window_size, gw, notWindower>>

\* window_size < num_pages <= 2 * window_size
GetWindowsPair ==
    /\ pc = "call"
    /\ ~(gw_num_pages <= window_size)
    /\ gw_num_pages <= 2 * window_size
    /\ windows' = << <<0, window_size>>, <<gw_num_pages - window_size, gw_num_pages>> >>
    /\ pc' = "returned"
    /\ UNCHANGED <<gw_num_pages, window_size, gw, notWindower>>

GetWindowsGeneral ==
    /\ pc = "call"
    /\ ~(gw_num_pages <= window_size)
    /\ ~(gw_num_pages <= 2 * window_size)
    /\ gw' = [num_windows |-> NumWindows(gw_num_pages, window_size),
              overlap |-> Overlap(gw_num_pages, window_size),
              missing |-> Missing(gw_num_pages, window_size),
              i |-> 0]
    /\ pc' = "for"
    /\ UNCHANGED <<gw_num_pages, window_size, windows, notWindower>>

GetWindowsLoop ==
    /\ pc = "for"
    /\ gw.i < gw.num_windows
    /\ windows' = Append(windows, WindowAt(gw.i, window_size, gw))
    /\ gw' = [gw EXCEPT !.i = gw.i + 1]
    /\ UNCHANGED <<pc, gw_num_pages, window_size, notWindower>>

GetWindowsReturn ==
    /\ pc = "for"
    /\ ~(gw.i < gw.num_windows)
    /\ pc' = "returned"
    /\ UNCHANGED <<windowerVars, notWindower>>

InitWindower ==
    /\ pc = "call"
    /\ gw_num_pages \in 0..MaxWinPages
    /\ window_size \in 1..MaxWindowSize
    /\ gw = NoLocals
    /\ windows = <<>>
    /\ PagerIdle
    /\ GraphIdle
    /\ ProcessIdle

NextWindower ==
    \/ GetWindowsSingle
    \/ GetWindowsPair
    \/ GetWindowsGeneral
    \/ GetWindowsLoop
    \/ GetWindowsReturn

SpecWindower == InitWindower /\ [][NextWindower]_vars

(***************************************************************************)
(* Claims about get_windows.                                               *)
(***************************************************************************)
Start(w) == w[1]
End(w) == w[2]

\* the number of indices window i shares with window i + 1
Shared(i) == End(windows[i]) - Start(windows[i + 1])

\* C3: for 1 <= window_size <= num_pages every window returned has width
\* window_size and lies in [0, num_pages), and the windows together cover
\* every index of [0, num_pages).
C3_WindowsCoverRange ==
    (pc = "returned" /\ 1 <= window_size /\ window_size <= gw_num_pages) =>
        /\ \A i \in 1..Len(windows) :
              /\ End(windows[i]) - Start(windows[i]) = window_size
              /\ 0 <= Start(windows[i])
              /\ Start(windows[i]) < End(windows[i])
              /\ End(windows[i]) <= gw_num_pages
        /\ \A x \in 0..(gw_num_pages - 1) :
              \E i \in 1..Len(windows) :
                  Start(windows[i]) <= x /\ x < End(windows[i])

\* C3: a general-case call that returned with trailing windows shifted
C3_GeneralCaseShifted ==
    /\ pc = "returned"
    /\ gw_num_pages > 2 * window_size
    /\ gw.missing >= 2
    /\ Len(windows) = gw.num_windows

\* C9: in the general case the overlaps of consecutive windows differ by at
\* most 1 from each other (each is `overlap` or `overlap` + 1) and the window
\* starts are strictly increasing.
C9_OverlapEvenlyDistributed ==
    (pc = "returned" /\ gw_num_pages > 2 * window_size) =>
        /\ \A i, j \in 1..(Len(windows) - 1) : Shared(i) - Shared(j) <= 1
        /\ \A i \in 1..(Len(windows) - 1) :
              /\ Shared(i) \in {gw.overlap, gw.overlap + 1}
              /\ Start(windows[i]) < Start(windows[i + 1])

(***************************************************************************)
(* Graphs (networkx.Graph).  A graph is a record of                        *)
(*   nodes  : its nodes in iteration order,                                *)
(*   attr   : for each node the value of its ATTR attribute,               *)
(*   adj    : for each node its neighbours in iteration order,             *)
(*   weight : for each edge {u, v} the value of its ATTR attribute.        *)
(* float(x) of a small integer x has the value x and is written x.         *)
(***************************************************************************)
RECURSIVE SumOver(_, _)
SumOver(f, S) ==
    IF S = {} THEN 0
    ELSE LET x == CHOOSE y \in S : TRUE IN f[x] + SumOver(f, S \ {x})

Range(seq) == {seq[i] : i \in 1..Len(seq)}

\* nx.complete_graph(n): nodes 0..n-1, the edges (i, j), i < j, added in
\* lexicographic order, so that every adjacency is in ascending order
CompleteGraphAdj(n) ==
    [u \in 0..(n - 1) |->
        [p \in 1..(n - 1) |-> IF p - 1 < u THEN p - 1 ELSE p]]

Edges(n) == {{i, j} : i, j \in 0..(n - 1)} \ {{i} : i \in 0..(n - 1)}

Lo(e) == CHOOSE x \in e : \A y \in e : x <= y
Hi(e) == CHOOSE x \in e : \A y \in e : x >= y

\* generate_graph(pages), where ws is the matrix get_weights(pages) returned
generate_graph(pgs, ws) ==
    LET n == Len(pgs)
        weight == [e \in Edges(n) |-> ws[<<Lo(e), Hi(e)>>]]
    IN  [nodes |-> [p \in 1..n |-> p - 1],
         adj |-> CompleteGraphAdj(n),
         weight |-> weight,
         attr |-> [node \in 0..(n - 1) |->
                    <<node,
                      Len(pgs[node + 1]),
                      Len(StrSplit(pgs[node + 1])),
                      SumOver([other \in (0..(n - 1)) \ {node} |-> weight[{node, other}]],
                              (0..(n - 1)) \ {node})>>]]

Returned(v) == [kind |-> "return", value |-> v]
Raised(e) == [kind |-> "raise", exc |-> e]

(***************************************************************************)
(* permute_graph                                                           *)
(***************************************************************************)
\* nx.relabel_nodes(graph, mapping): a new graph
relabel_nodes(g, mapping) ==
    LET old(m) == CHOOSE u \in Range(g.nodes) : mapping[u] = m
        new == {mapping[u] : u \in Range(g.nodes)}
    IN  [nodes |-> [p \in 1..Len(g.nodes) |-> mapping[g.nodes[p]]],
         attr |-> [m \in new |-> g.attr[old(m)]],
         adj |-> [m \in new |->
                    [p \in 1..Len(g.adj[old(m)]) |-> mapping[g.adj[old(m)][p]]]],
         weight |-> [e \in {{mapping[u] : u \in d} : d \in DOMAIN g.weight} |->
                       g.weight[{old(m) : m \in e}]]]

\* the loop over new_graph.nodes: "_, attrs = new_graph.nodes[node][ATTR]"
\* unpacks the attribute tuple into exactly two names and raises ValueError
\* for a tuple of any other length
RECURSIVE RelabelAttrs(_, _, _)
RelabelAttrs(g, p, new_order) ==
    IF p > Len(g.nodes) THEN Returned(<<g, new_order>>)
    ELSE LET node == g.nodes[p]
             t == g.attr[node]
         IN  IF Len(t) # 2 THEN Raised("ValueError")
             ELSE RelabelAttrs([g EXCEPT !.attr[node] = <<node>> \o t[2]],
                               p + 1, new_order)

\* permute_graph(graph), where new_order is the sample drawn
permute_graph(g, new_order) ==
    LET mapping == [u \in Range(g.nodes) |->
                       new_order[CHOOSE p \in 1..Len(g.nodes) : g.nodes[p] = u]]
    IN  RelabelAttrs(relabel_nodes(g, mapping), 1, new_order)

\* sample(range(n), n): the orderings of 0..n-1
Samples(n) == {o \in [1..n -> 0..(n - 1)] : \A p, q \in 1..n : o[p] = o[q] => p = q}

(***************************************************************************)
(* sparsify_graph                                                          *)
(***************************************************************************)
\* seq with x inserted behind the entries whose key is not below that of x
InsertDescending(seq, x, key) ==
    LET before == Cardinality({p \in 1..Len(seq) : key[seq[p]] >= key[x]})
    IN  SubSeq(seq, 1, before) \o <<x>> \o SubSeq(seq, before + 1, Len(seq))

\* seq with x inserted behind the entries whose key is not above that of x
InsertAscending(seq, x, key) ==
    LET before == Cardinality({p \in 1..Len(seq) : key[seq[p]] <= key[x]})
    IN  SubSeq(seq, 1, before) \o <<x>> \o SubSeq(seq, before + 1, Len(seq))

RECURSIVE SortedAscendingFrom(_, _, _, _)
SortedAscendingFrom(seq, p, key, acc) ==
    IF p > Len(seq) THEN acc
    ELSE SortedAscendingFrom(seq, p + 1, key, InsertAscending(acc, seq[p], key))

\* sorted(seq, key=key): the flag reverse=True left out
SortedReverse_Ascending(seq, key) == SortedAscendingFrom(seq, 1, key, <<>>)

RECURSIVE SortedReverseFrom(_, _, _, _)
SortedReverseFrom(seq, p, key, acc) ==
    IF p > Len(seq) THEN acc
    ELSE SortedReverseFrom(seq, p + 1, key, InsertDescending(acc, seq[p], key))

\* sorted(seq, key=key, reverse=True): descending by key, entries of equal key
\* in the order they have in seq (the sort is stable)
SortedReverse(seq, key) == SortedReverseFrom(seq, 1, key, <<>>)

\* seq[:k] for k >= 0
Take(seq, k) == SubSeq(seq, 1, IF k < Len(seq) THEN k ELSE Len(seq))

\* new_graph.add_edge(u, v); new_graph.edges[(u, v)][ATTR] = w
AddEdge(g, u, v, w) ==
    LET app(seq, x) == IF x \in Range(seq) THEN seq ELSE Append(seq, x)
    IN  [g EXCEPT !.adj = [n \in DOMAIN g.adj |->
                              IF n = u THEN app(g.adj[n], v)
                              ELSE IF n = v THEN app(g.adj[n], u)
                              ELSE g.adj[n]],
                  !.weight = [e \in DOMAIN g.weight \cup {{u, v}} |->
                                 IF e = {u, v} THEN w ELSE g.weight[e]]]

RECURSIVE AddEdges(_, _, _, _, _)
AddEdges(new, g, node, others, p) ==
    IF p > Len(others) THEN new
    ELSE AddEdges(AddEdge(new, node, others[p], g.weight[{node, others[p]}]),
                  g, node, others, p + 1)

\* the k neighbours of node that sparsify_graph keeps
KNeighbors(g, node, k) ==
    LET get_weight == [other \in Range(g.adj[node]) |-> g.weight[{node, other}]]
    IN  Take(SortedReverse(g.adj[node], get_weight), k)

RECURSIVE SparsifyLoop(_, _, _, _)
SparsifyLoop(new, g, k, p) ==
    IF p > Len(g.nodes) THEN new
    ELSE SparsifyLoop(AddEdges(new, g, g.nodes[p], KNeighbors(g, g.nodes[p], k), 1),
                      g, k, p + 1)

\* graph.copy() followed by clear_edges()
CopyWithoutEdges(g) ==
    [g EXCEPT !.adj = [n \in DOMAIN g.adj |-> <<>>], !.weight = <<>>]

sparsify_graph(g, k) == SparsifyLoop(CopyWithoutEdges(g), g, k, 1)

(***************************************************************************)
(* A graph is generated from a list of pages and the similarities the      *)
(* external get_weights returns for them (a symmetric matrix with the      *)
(* greatest value on its diagonal; WeightVals are the similarities);       *)
(* then permute_graph or sparsify_graph is applied to it.                  *)
(***************************************************************************)
PagePool == {<<"a">>, <<"b", " ", "c">>}
WeightVals == {1, 2}

WeightMatrices(n) ==
    {[ij \in (0..(n - 1)) \X (0..(n - 1)) |->
         IF ij[1] = ij[2] THEN 2 ELSE u[{ij[1], ij[2]}]] : u \in [Edges(n) -> WeightVals]}

GenerateGraph ==
    /\ pc = "call"
    /\ graph' = generate_graph(g_pages, g_weights)
    /\ pc' = "generated"
    /\ UNCHANGED <<g_pages, g_weights, call, out, notGraph>>

PermuteGraph ==
    /\ pc = "generated"
    /\ \E new_order \in Samples(Len(graph.nodes)) :
           /\ call' = [fn |-> "permute_graph", new_order |-> new_order]
           /\ out' = permute_graph(graph, new_order)
    /\ pc' = "done"
    /\ UNCHANGED <<g_pages, g_weights, graph, notGraph>>

SparsifyGraph ==
    /\ pc = "generated"
    /\ \E k \in 0..Len(graph.nodes) :
           /\ call' = [fn |-> "sparsify_graph", k |-> k]
           /\ out' = Returned(sparsify_graph(graph, k))
    /\ pc' = "done"
    /\ UNCHANGED <<g_pages, g_weights, graph, notGraph>>

InitGraph ==
    /\ pc = "call"
    /\ \E n \in 1..MaxNodes :
           /\ g_pages \in [1..n -> PagePool]
           /\ g_weights \in WeightMatrices(n)
    /\ graph = None
    /\ call = None
    /\ out = None
    /\ PagerIdle
    /\ WindowerIdle
    /\ ProcessIdle

NextGraph ==
    \/ GenerateGraph
    \/ PermuteGraph
    \/ SparsifyGraph

SpecGraph == InitGraph /\ [][NextGraph]_vars

(***************************************************************************)
(* Claims about permute_graph and sparsify_graph.                          *)
(***************************************************************************)
NumNodes == Len(graph.nodes)

Permuted == pc = "done" /\ call.fn = "permute_graph"
Sparsified == pc = "done" /\ call.fn = "sparsify_graph"

\* how many edges of weight function w carry the value v
CountOf(w, v) == Cardinality({e \in DOMAIN w : w[e] = v})

\* C4: for a graph of generate_graph with n >= 1 nodes, permute_graph returns
\* (new_graph, label) where label holds every value of 0..n-1 exactly once and
\* the edge weights of new_graph are, as a multiset, those of the graph.
C4_LabelIsPermutationAndWeightsKept ==
    (Permuted /\ NumNodes >= 1) =>
        /\ out.kind = "return"
        /\ LET new_graph == out.value[1]
               label == out.value[2]
           IN  /\ Len(label) = NumNodes
               /\ \A v \in 0..(NumNodes - 1) :
                      Cardinality({p \in 1..Len(label) : label[p] = v}) = 1
               /\ \A v \in WeightVals :
                      CountOf(new_graph.weight, v) = CountOf(graph.weight, v)

\* C7: for (new_graph, label) = permute_graph(G), node label[i] of new_graph
\* has index attribute label[i] and the other attributes of node i of G, the
\* edge {label[i], label[j]} has the weight of edge {i, j} of G, and G is
\* unchanged.
C7_AttributesFollowRelabelledNodes ==
    (Permuted /\ NumNodes >= 1) =>
        /\ out.kind = "return"
        /\ graph = generate_graph(g_pages, g_weights)
        /\ LET new_graph == out.value[1]
               label == out.value[2]
           IN  /\ \A i \in 0..(NumNodes - 1) :
                      /\ new_graph.attr[label[i + 1]][1] = label[i + 1]
                      /\ Tail(new_graph.attr[label[i + 1]]) = Tail(graph.attr[i])
               /\ \A i, j \in 0..(NumNodes - 1) :
                      i # j => new_graph.weight[{label[i + 1], label[j + 1]}]
                                  = graph.weight[{i, j}]

\* the position of x in seq
PosIn(seq, x) == CHOOSE p \in 1..Len(seq) : seq[p] = x

\* v is among the k highest-weight neighbours of u in the graph, neighbours of
\* equal weight counted in the order in which u's neighbours are iterated
InTopK(u, v, k) ==
    LET w(x) == graph.weight[{u, x}]
        ahead == {x \in Range(graph.adj[u]) :
                     \/ w(x) > w(v)
                     \/ w(x) = w(v) /\ PosIn(graph.adj[u], x) < PosIn(graph.adj[u], v)}
    IN  Cardinality(ahead) < k

\* C5: for 0 <= k < n, sparsify_graph(G, k) has the nodes of G and the edge
\* {u, v} exactly when v is among the k highest-weight neighbours of u or u
\* among those of v, each edge with its weight in G; k = n-1 keeps every edge
\* and k = 0 none.
C5_KeepsTopKEdgesOfEitherEnd ==
    (Sparsified /\ call.k < NumNodes) =>
        LET new_graph == out.value
        IN  /\ new_graph.nodes = graph.nodes
            /\ new_graph.attr = graph.attr
            /\ \A e \in DOMAIN graph.weight :
                   e \in DOMAIN new_graph.weight <=>
                       (InTopK(Lo(e), Hi(e), call.k) \/ InTopK(Hi(e), Lo(e), call.k))
            /\ DOMAIN new_graph.weight \subseteq DOMAIN graph.weight
            /\ \A e \in DOMAIN new_graph.weight : new_graph.weight[e] = graph.weight[e]
            /\ call.k = NumNodes - 1 => DOMAIN new_graph.weight = DOMAIN graph.weight
            /\ call.k = 0 => DOMAIN new_graph.weight = {}

\* C5: a sparsified graph in which a tie was cut and a node kept more than k
\* edges because a neighbour selected it
C5_TieCutAndDegreeAboveK ==
    /\ Sparsified
    /\ 0 < call.k
    /\ call.k < NumNodes - 1
    /\ \E u \in Range(graph.nodes) : Len(out.value.adj[u]) > call.k
    /\ \E u \in Range(graph.nodes) : \E v, x \in Range(graph.adj[u]) :
           /\ v # x
           /\ graph.weight[{u, v}] = graph.weight[{u, x}]
           /\ {u, v} \in DOMAIN out.value.weight
           /\ {u, x} \notin DOMAIN out.value.weight

(***************************************************************************)
(* The functions above as process calls them.                              *)
(***************************************************************************)
NUM_PAGES == PagesPerGraph
NUM_PERMS == PermsPerGraph

RECURSIVE SplitIntoPagesLoop(_, _, _, _)
SplitIntoPagesLoop(ws, n, cpp, pgs) ==
    IF Len(pgs) > n
    THEN LET next == cpp + BudgetIncrement(pgs, n)
         IN  SplitIntoPagesLoop(ws, n, next, split_text(ws, next))
    ELSE pgs

\* split_into_pages(text, n) for n > 0
split_into_pages(t, n) ==
    LET cpp == Len(t) \div n + 1
        ws == StrSplit(t)
    IN  SplitIntoPagesLoop(ws, n, cpp, split_text(ws, cpp))

\* get_windows(np, ws)
get_windows(np, ws) ==
    IF np <= ws THEN << <<0, np>> >>
    ELSE IF np <= 2 * ws THEN << <<0, ws>>, <<np - ws, np>> >>
    ELSE LET l == [num_windows |-> NumWindows(np, ws), overlap |-> Overlap(np, ws),
                   missing |-> Missing(np, ws), i |-> 0]
         IN  [p \in 1..l.num_windows |-> WindowAt(p - 1, ws, l)]

RECURSIVE SplitOnFrom(_, _, _, _)
SplitOnFrom(s, sep, p, cur) ==
    IF p > Len(s) THEN <<cur>>
    ELSE IF p + Len(sep) - 1 <= Len(s) /\ SubSeq(s, p, p + Len(sep) - 1) = sep
         THEN <<cur>> \o SplitOnFrom(s, sep, p + Len(sep), <<>>)
         ELSE SplitOnFrom(s, sep, p + 1, Append(cur, s[p]))

\* s.split(sep) for a non-empty separator
SplitOn(s, sep) == SplitOnFrom(s, sep, 1, <<>>)

\* get_weights(pages): the similarities come from the external vectorizer;
\* equal pages have the greatest similarity, different pages the lesser one
get_weights(pgs) ==
    [ij \in (0..(Len(pgs) - 1)) \X (0..(Len(pgs) - 1)) |->
        IF pgs[ij[1] + 1] = pgs[ij[2] + 1] THEN 2 ELSE 1]

\* to_dgl(graph): the directed graph with both directions of every edge
to_dgl(g) ==
    [num_nodes |-> Len(g.nodes),
     ndata |-> g.attr,
     edata |-> [uv \in {<<u, v>> \in Range(g.nodes) \X Range(g.nodes) :
                             {u, v} \in DOMAIN g.weight} |-> g.weight[{uv[1], uv[2]}]]]

\* the graphs process appends to nxgraphs for one text
GraphsOfText(t) ==
    LET split_pages == split_into_pages(t, NUM_PAGES)
        true_pages == SplitOn(t, <<"\n", "\n">>)
        wins == get_windows(Len(true_pages), NUM_PAGES)
        sub(w) == SubSeq(true_pages, w[1] + 1, w[2])
    IN  <<generate_graph(split_pages, get_weights(split_pages))>>
        \o (IF Len(true_pages) > NUM_PAGES
            THEN [p \in 1..Len(wins) |->
                     generate_graph(sub(wins[p]), get_weights(sub(wins[p])))]
            ELSE <<>>)

(***************************************************************************)
(* BookDataset.process                                                     *)
(***************************************************************************)
\* an exception that leaves process and stores what the lists hold so far
RaiseOutOfProcess_SavePartial ==
    /\ pc' = "raised"
    /\ self_graphs' = Assigned(graphs)
    /\ self_labels' = Assigned(labels)

\* An exception raised inside the loops leaves process: process has no
\* try/except, and graphs and labels are locals until the assignments that
\* end it.  (The model keeps the locals of a raised call as they were.)
RaiseOutOfProcess ==
    /\ pc' = "raised"
    /\ UNCHANGED <<self_graphs, self_labels>>

\* the first loop: one file of PATHS is read
ReadBook ==
    /\ pc = "read"
    /\ loop.book < Len(books)
    /\ texts' = Append(texts, books[loop.book + 1])
    /\ loop' = [loop EXCEPT !.book = loop.book + 1]
    /\ UNCHANGED <<pc, books, nxgraphs, graphs, labels, self_graphs, self_labels,
                   notProcess>>

\* open(path) raises OSError: the exception leaves process
ReadBookFails ==
    /\ pc = "read"
    /\ loop.book < Len(books)
    /\ RaiseOutOfProcess
    /\ UNCHANGED <<books, texts, nxgraphs, graphs, labels, loop, notProcess>>

ReadLoopExit ==
    /\ pc = "read"
    /\ ~(loop.book < Len(books))
    /\ pc' = "build"
    /\ loop' = [loop EXCEPT !.book = 0]
    /\ UNCHANGED <<books, texts, nxgraphs, graphs, labels, self_graphs, self_labels,
                   notProcess>>

\* the second loop: the graphs of one text
BuildGraphs ==
    /\ pc = "build"
    /\ loop.book < Len(texts)
    /\ nxgraphs' = nxgraphs \o GraphsOfText(texts[loop.book + 1])
    /\ loop' = [loop EXCEPT !.book = loop.book + 1]
    /\ UNCHANGED <<pc, books, texts, graphs, labels, self_graphs, self_labels,
                   notProcess>>

BuildLoopExit ==
    /\ pc = "build"
    /\ ~(loop.book < Len(texts))
    /\ pc' = "permute"
    /\ UNCHANGED <<processVars, notProcess>>

\* the third loop: one permutation of one graph
PermuteGraphTrial ==
    /\ pc = "permute"
    /\ loop.graph < Len(nxgraphs)
    /\ \E new_order \in Samples(Len(nxgraphs[loop.graph + 1].nodes)) :
           LET r == permute_graph(nxgraphs[loop.graph + 1], new_order)
           IN  IF r.kind = "raise"
               THEN /\ RaiseOutOfProcess
                    /\ UNCHANGED <<graphs, labels, loop>>
               ELSE /\ graphs' = Append(graphs, to_dgl(r.value[1]))
                    /\ labels' = Append(labels, r.value[2])
                    /\ loop' = IF loop.trial + 1 < NUM_PERMS
                               THEN [loop EXCEPT !.trial = loop.trial + 1]
                               ELSE [loop EXCEPT !.trial = 0, !.graph = loop.graph + 1]
                    /\ UNCHANGED <<pc, self_graphs, self_labels>>
    /\ UNCHANGED <<books, texts, nxgraphs, notProcess>>

\* torch.LongTensor(labels) takes label vectors of one length only
LongTensor(ls) ==
    IF \A p, q \in 1..Len(ls) : Len(ls[p]) = Len(ls[q])
    THEN Returned(ls) ELSE Raised("ValueError")

\* the loops are over: self.graphs and self.labels are assigned
Finish ==
    /\ pc = "permute"
    /\ ~(loop.graph < Len(nxgraphs))
    /\ IF LongTensor(labels).kind = "raise"
       THEN /\ pc' = "raised"
            /\ self_graphs' = Assigned(graphs)
            /\ UNCHANGED self_labels
       ELSE /\ pc' = "done"
            /\ self_graphs' = Assigned(graphs)
            /\ self_labels' = Assigned(LongTensor(labels).value)
    /\ UNCHANGED <<books, texts, nxgraphs, graphs, labels, loop, notProcess>>

\* a book file: pages of words "a", the pages separated by two newlines
RECURSIVE BookText(_, _)
BookText(num_true_pages, page_words) ==
    LET page == Join(<<" ">>, [w \in 1..page_words |-> <<"a">>])
    IN  IF num_true_pages = 1 THEN page
        ELSE page \o <<"\n", "\n">> \o BookText(num_true_pages - 1, page_words)

BookPool == {BookText(p, w) : p \in 1..MaxTruePages, w \in 1..MaxPageWords}

InitProcess ==
    /\ pc = "read"
    /\ \E n \in 0..MaxBooks : books \in [1..n -> BookPool]
    /\ texts = <<>>
    /\ nxgraphs = <<>>
    /\ graphs = <<>>
    /\ labels = <<>>
    /\ self_graphs = Unassigned
    /\ self_labels = Unassigned
    /\ loop = NoLoop
    /\ PagerIdle
    /\ WindowerIdle
    /\ GraphIdle

NextProcess ==
    \/ ReadBook
    \/ ReadBookFails
    \/ ReadLoopExit
    \/ BuildGraphs
    \/ BuildLoopExit
    \/ PermuteGraphTrial
    \/ Finish

SpecProcess == InitProcess /\ [][NextProcess]_vars

C10_EveryGraphHasNumPagesNodes ==
    /\ \A p \in 1..Len(nxgraphs) : Len(nxgraphs[p].nodes) = NUM_PAGES
    /\ pc = "done" =>
           /\ Len(self_graphs.value) = NUM_PERMS * Len(nxgraphs)
           /\ Len(self_labels.value) = Len(self_graphs.value)
           /\ \A p \in 1..Len(self_labels.value) : Len(self_labels.value[p]) = NUM_PAGES
====
